---------------------------- MODULE Spec2Model ----------------------------
(***************************************************************************)
(* Model of src/scrapper.go, the manifest cache scrapper.                  *)
(*                                                                         *)
(* The file holds three revisions of the program one after the other.      *)
(* Lines 1-136 (package scrapper) do not build: main calls                 *)
(* fetchAndFilterManifestEntities(baseUrl + ) and saveToRedis with one     *)
(* argument, and saveToRedis names an undeclared type.  The two complete   *)
(* programs are modelled, told apart by the variable rev:                  *)
(*     rev = 2   lines 139-337                                             *)
(*     rev = 3   lines 340-523                                             *)
(* A run of main is one behaviour; the remote API and the Redis store are  *)
(* the environment, whose answers are chosen nondeterministically.         *)
(***************************************************************************)
EXTENDS Integers, Sequences, FiniteSets, TLC

VARIABLES
    rev,                \* which revision of the program runs
    prior,              \* the store's contents before the run
    cache,              \* the store's contents
    pc,                 \* main's position
    outcome,            \* how the process ended, "running" until then
    flushes,            \* FLUSHALL issued by clearCache: "none", "ok", "err"
    gets,               \* the http.Get calls in order: [url, res]
    manifest,           \* main's local manifest
    raceInfo,           \* main's local raceInfo
    classInfo,          \* main's local classInfo
    genderInfo,         \* main's local genderInfo
    activityInfo,       \* main's local activityInfo
    filteredActivities, \* main's local filteredActivities
    data,               \* main's local data
    pending,            \* keys the range loop of saveToRedis has not visited
    sets,               \* the SET commands issued: [key, value, ttl, ok]
    call,               \* a call of a pure function (specification PureSpec)
    result              \* its result

vars == <<rev, prior, cache, pc, outcome, flushes, gets, manifest, raceInfo,
          classInfo, genderInfo, activityInfo, filteredActivities, data,
          pending, sets, call, result>>

pipelineVars == <<rev, prior, cache, pc, outcome, flushes, gets, manifest,
                  raceInfo, classInfo, genderInfo, activityInfo,
                  filteredActivities, data, pending, sets>>

-----------------------------------------------------------------------------
(* Bounds *)

\* entity hashes are 1..MaxKeys
MaxKeys == 2

\* payload mode values are 0..MaxMode
MaxMode == 4

\* flattenMaps is called with 1..MaxArgs dictionaries
MaxArgs == 3

Keys == 1..MaxKeys

Revs == {2, 3}

-----------------------------------------------------------------------------
(* Strings, as tuples of tokens: every "/" is a token of its own, and the  *)
(* text between two slashes is one token                                   *)

Host == <<"https:", "/", "/", "www.bungie.net">>

PlatformSlash == <<"/", "Platform", "/">>

Destiny2Manifest == <<"Destiny2", "/", "Manifest">>

\* const baseUrl
baseUrl(r) == IF r = 2 THEN Host ELSE Host \o PlatformSlash

\* const manifestPath
manifestPath(r) ==
    IF r = 2 THEN PlatformSlash \o Destiny2Manifest ELSE Destiny2Manifest

\* the sub-resource paths of a manifest body, each beginning with one "/"
ManifestBodies ==
    { [ DestinyRaceDefinition     |-> <<"/", "foo">>,
        DestinyClassDefinition    |-> <<"/", "c">>,
        DestinyGenderDefinition   |-> <<"/", "g", "/", "x.json">>,
        DestinyActivityDefinition |-> <<"/", "a.json">> ],
      [ DestinyRaceDefinition     |-> <<"/", "r">>,
        DestinyClassDefinition    |-> <<"/", "common", "/", "c">>,
        DestinyGenderDefinition   |-> <<"/", "g">>,
        DestinyActivityDefinition |-> <<"/", "a">> ] }

\* var manifest Manifest: the zero value, every path the empty string
ZeroManifest ==
    [ DestinyRaceDefinition     |-> << >>,
      DestinyClassDefinition    |-> << >>,
      DestinyGenderDefinition   |-> << >>,
      DestinyActivityDefinition |-> << >> ]

\* the argument main gives fetchManifestEntities for one manifest field
EntityUrl(r, path) == baseUrl(r) \o path

-----------------------------------------------------------------------------
(* Dictionaries: functions from a set of keys *)

EmptyMap == [k \in {} |-> 0]

\* the mode field of a payload entity: absent, JSON null, or an integer
Absent == [kind |-> "absent", v |-> 0]
Null == [kind |-> "null", v |-> 0]
Num(n) == [kind |-> "int", v |-> n]

\* the mode a revision's filter keeps
TargetRev2 == 4
TargetRev3 == 3

\* ManifestObject.Mode after json.Unmarshal: rev 2 declares an int (absent and
\* null leave the zero value), rev 3 a *int (absent and null leave nil, here
\* the empty tuple; a number n is a pointer to n, here <<n>>)
DecodeMode(r, m) ==
    IF r = 2
    THEN (IF m.kind = "int" THEN m.v ELSE 0)
    ELSE (IF m.kind = "int" THEN <<m.v>> ELSE << >>)

\* json.Unmarshal of one entity into ManifestObject; name stands for the
\* display properties
DecodeObject(r, e) == [Mode |-> DecodeMode(r, e.mode), name |-> e.name]

\* json.Unmarshal(body, &manifest) in fetchManifestEntities
DecodeResponse(r, body) == [k \in DOMAIN body |-> DecodeObject(r, body[k])]

\* a rev 3 condition without its nil check, a nil mode read as the target
KeepsNil(r, obj) ==
    IF r = 2
    THEN obj.Mode = TargetRev2
    ELSE obj.Mode = << >> \/ obj.Mode[1] = TargetRev3

\* the condition under which the filter loop keeps an entry
Keeps(r, obj) ==
    IF r = 2
    THEN obj.Mode = TargetRev2
    ELSE obj.Mode # << >> /\ obj.Mode[1] = TargetRev3

\* filterActivities(manifestResponse)
filterActivities(r, manifestResponse) ==
    LET kept == {k \in DOMAIN manifestResponse : Keeps(r, manifestResponse[k])}
    IN  [k \in kept |-> manifestResponse[k]]

\* the inner loop of flattenMaps: result[key] = value for every entry of m
InsertAll(res, m) ==
    [k \in DOMAIN res \cup DOMAIN m |-> IF k \in DOMAIN m THEN m[k] ELSE res[k]]

RECURSIVE FlattenFrom(_, _, _)
FlattenFrom(res, responses, i) ==
    IF i > Len(responses)
    THEN res
    ELSE FlattenFrom(InsertAll(res, responses[i]), responses, i + 1)

\* a merge that walks its arguments from the last to the first
flattenMapsFirstWins(responses) ==
    FlattenFrom(EmptyMap,
                [i \in 1..Len(responses) |-> responses[Len(responses) + 1 - i]],
                1)

flattenMaps(responses) == FlattenFrom(EmptyMap, responses, 1)

\* the arguments main gives flattenMaps
MergeArgs ==
    IF rev = 2
    THEN <<raceInfo, classInfo, genderInfo, filteredActivities>>
    ELSE <<raceInfo, classInfo, genderInfo, activityInfo, filteredActivities>>

\* the value saveToRedis hands to client.Set: rev 2 the json.Marshal of the
\* object (its fields under their JSON names; Marshal cannot fail on a struct
\* of ints, strings and bools, so the error return of line 273 is never
\* taken), rev 3 the object itself
SetValue(r, obj) ==
    IF r = 2
    THEN [json |-> [directActivityModeType |-> obj.Mode,
                    displayProperties |-> obj.name]]
    ELSE [object |-> obj]

\* the store after SET key value
StoreSet(c, key, value) ==
    [k \in DOMAIN c \cup {key} |-> IF k = key THEN value ELSE c[k]]


-----------------------------------------------------------------------------
(* The environment's answers *)

Dicts(S, V) == UNION {[D -> V] : D \in SUBSET S}

\* what the store may hold before a run: nothing; stale entries under a key
\* the remote data still has (1) and one it no longer has (0); or what an
\* earlier run of rev 2 wrote when every key was an activity of its mode
PriorCaches ==
    { EmptyMap,
      [k \in 0..1 |-> [stale |-> TRUE]],
      [k \in Keys |-> SetValue(2, DecodeObject(2, [mode |-> Num(TargetRev2),
                                                   name |-> "activity"]))] }

\* response bodies of the race, class and gender resources: at most one
\* entity, with no mode field
PlainBodies(name) ==
    {EmptyMap} \cup {[k \in {j} |-> [mode |-> Absent, name |-> name]] : j \in Keys}

\* response bodies of the activity resource
ActivityBodies ==
    Dicts(Keys, [mode : {Absent, Num(TargetRev2), Num(TargetRev3)},
                 name : {"activity"}])

\* http.Get, io.ReadAll and json.Unmarshal each succeed or fail
FetchResults == {"ok", "transport", "read", "decode"}

NoCall == [fn |-> "none"]
NoResult == [done |-> FALSE]

-----------------------------------------------------------------------------
(* main *)

Init ==
    /\ rev \in Revs
    /\ prior \in PriorCaches
    /\ cache = prior
    /\ pc = "clearCache"
    /\ outcome = "running"
    /\ flushes = "none"
    /\ gets = << >>
    /\ manifest = ZeroManifest
    /\ raceInfo = EmptyMap
    /\ classInfo = EmptyMap
    /\ genderInfo = EmptyMap
    /\ activityInfo = EmptyMap
    /\ filteredActivities = EmptyMap
    /\ data = EmptyMap
    /\ pending = {}
    /\ sets = {}
    /\ call = NoCall
    /\ result = NoResult

\* a flush that leaves the keyspace as it is
FlushedNothing(c) == c

\* the keyspace after a FLUSHALL that succeeded
Flushed(c) == EmptyMap

\* main going on after clearCache whatever it returned
AfterClearCacheIgnored(ok) == "running"

\* main after clearCache: fmt.Println and return on an error (the process
\* ends without a failure status; "flushError" names that ending)
AfterClearCache(ok) == IF ok THEN "running" ELSE "flushError"

\* clearCache(ctx, client) and main's check of its error
ClearCache ==
    /\ pc = "clearCache" /\ outcome = "running"
    /\ \E ok \in BOOLEAN :
         /\ flushes' = IF ok THEN "ok" ELSE "err"
         /\ cache' = IF ok THEN Flushed(cache) ELSE cache
         /\ outcome' = AfterClearCache(ok)
         /\ pc' = IF AfterClearCache(ok) = "running" THEN "fetchManifest" ELSE pc
    /\ UNCHANGED <<rev, prior, gets, manifest, raceInfo, classInfo, genderInfo,
                   activityInfo, filteredActivities, data, pending, sets,
                   call, result>>

\* fetchManifest(baseUrl + manifestPath): every failure ends in log.Fatalf,
\* which exits the process
FetchManifest ==
    /\ pc = "fetchManifest" /\ outcome = "running"
    /\ \E res \in FetchResults :
         /\ gets' = Append(gets, [url |-> baseUrl(rev) \o manifestPath(rev),
                                  res |-> res])
         /\ IF res = "ok"
            THEN /\ manifest' \in ManifestBodies
                 /\ pc' = "fetchRace"
                 /\ UNCHANGED outcome
            ELSE /\ outcome' = "fatal"
                 /\ UNCHANGED <<manifest, pc>>
    /\ UNCHANGED <<rev, prior, cache, flushes, raceInfo, classInfo, genderInfo,
                   activityInfo, filteredActivities, data, pending, sets,
                   call, result>>

\* a main that logs a failed class fetch and goes on
AfterEntitiesErrorLogged(stage) ==
    IF stage = "fetchClass" THEN "running" ELSE "fatal"

\* main after fetchManifestEntities returned an error: log.Fatalf
AfterEntitiesError(stage) == "fatal"

\* fetchManifestEntities(url) and main's check of its error; info is the
\* value main's local gets (nil on an error)
FetchEntities(stage, next, path, bodies, info) ==
    /\ pc = stage /\ outcome = "running"
    /\ \E res \in FetchResults :
         /\ gets' = Append(gets, [url |-> EntityUrl(rev, path), res |-> res])
         /\ IF res = "ok"
            THEN /\ \E body \in bodies : info = DecodeResponse(rev, body)
                 /\ pc' = next
                 /\ UNCHANGED outcome
            ELSE /\ info = EmptyMap
                 /\ outcome' = AfterEntitiesError(stage)
                 /\ pc' = IF AfterEntitiesError(stage) = "running" THEN next ELSE pc
    /\ UNCHANGED <<rev, prior, cache, flushes, manifest, filteredActivities,
                   data, pending, sets, call, result>>

FetchRace ==
    /\ FetchEntities("fetchRace", "fetchClass", manifest.DestinyRaceDefinition,
                     PlainBodies("race"), raceInfo')
    /\ UNCHANGED <<classInfo, genderInfo, activityInfo>>

FetchClass ==
    /\ FetchEntities("fetchClass", "fetchGender", manifest.DestinyClassDefinition,
                     PlainBodies("class"), classInfo')
    /\ UNCHANGED <<raceInfo, genderInfo, activityInfo>>

FetchGender ==
    /\ FetchEntities("fetchGender", "fetchActivity",
                     manifest.DestinyGenderDefinition,
                     PlainBodies("gender"), genderInfo')
    /\ UNCHANGED <<raceInfo, classInfo, activityInfo>>

FetchActivity ==
    /\ FetchEntities("fetchActivity", "filter",
                     manifest.DestinyActivityDefinition,
                     ActivityBodies, activityInfo')
    /\ UNCHANGED <<raceInfo, classInfo, genderInfo>>

\* filteredActivities := filterActivities(activityInfo)
FilterActivities ==
    /\ pc = "filter" /\ outcome = "running"
    /\ filteredActivities' = filterActivities(rev, activityInfo)
    /\ pc' = "merge"
    /\ UNCHANGED <<rev, prior, cache, outcome, flushes, gets, manifest, raceInfo,
                   classInfo, genderInfo, activityInfo, data, pending, sets,
                   call, result>>

\* data := flattenMaps(...), and saveToRedis entered
FlattenMaps ==
    /\ pc = "merge" /\ outcome = "running"
    /\ data' = flattenMaps(MergeArgs)
    /\ pending' = DOMAIN data'
    /\ pc' = "save"
    /\ UNCHANGED <<rev, prior, cache, outcome, flushes, gets, manifest, raceInfo,
                   classInfo, genderInfo, activityInfo, filteredActivities, sets,
                   call, result>>

\* a loop that leaves after its first iteration
RestAfterFirst(p, key) == {}

\* for key, value := range data: the keys left after this iteration
RestAfter(p, key) == p \ {key}

\* saveToRedis after client.Set returned: rev 2 drops the command's result;
\* rev 3 compares the *StatusCmd, which is never nil, with nil and so always
\* takes the log.Panicf branch
AfterSet(r, ok) == IF r = 2 THEN "running" ELSE "panic"

\* one iteration of saveToRedis's loop, in the map's iteration order; the
\* SET is accepted or fails (in either revision: whether the client can
\* encode rev 3's struct value is left open)
SaveToRedisStep ==
    /\ pc = "save" /\ outcome = "running" /\ pending # {}
    /\ \E key \in pending, ok \in BOOLEAN :
         LET value == SetValue(rev, data[key])
         IN  /\ sets' = sets \cup {[key |-> key, value |-> value, ttl |-> 0,
                                    ok |-> ok]}
             /\ cache' = IF ok THEN StoreSet(cache, key, value) ELSE cache
             /\ pending' = RestAfter(pending, key)
             /\ outcome' = AfterSet(rev, ok)
    /\ UNCHANGED <<rev, prior, pc, flushes, gets, manifest, raceInfo, classInfo,
                   genderInfo, activityInfo, filteredActivities, data,
                   call, result>>

\* saveToRedis returns nil after the loop; main drops the result and returns
SaveToRedisReturn ==
    /\ pc = "save" /\ outcome = "running" /\ pending = {}
    /\ pc' = "done"
    /\ outcome' = "success"
    /\ UNCHANGED <<rev, prior, cache, flushes, gets, manifest, raceInfo,
                   classInfo, genderInfo, activityInfo, filteredActivities, data,
                   pending, sets, call, result>>

Next ==
    \/ ClearCache
    \/ FetchManifest
    \/ FetchRace
    \/ FetchClass
    \/ FetchGender
    \/ FetchActivity
    \/ FilterActivities
    \/ FlattenMaps
    \/ SaveToRedisStep
    \/ SaveToRedisReturn

Spec == Init /\ [][Next]_vars

-----------------------------------------------------------------------------
(* The pure functions, applied to inputs drawn from bounded sets *)

\* ManifestObjects that differ in their display properties
Objects == [Mode : {0}, name : {"a", "b"}]

FlattenCalls ==
    {[fn |-> "flattenMaps", responses |-> rs] :
        rs \in UNION {[1..n -> Dicts(Keys, Objects)] : n \in 1..MaxArgs}}

\* every payload mode: absent, null, 0..MaxMode
PayloadModes == {Absent, Null} \cup {Num(n) : n \in 0..MaxMode}

FilterCalls ==
    {[fn |-> "filterActivities", r |-> r, body |-> body] :
        r \in Revs,
        body \in Dicts(Keys, [mode : PayloadModes, name : {"activity"}])}

PureInit ==
    /\ call \in FlattenCalls \cup FilterCalls
    /\ result = NoResult
    /\ rev = 2
    /\ prior = EmptyMap
    /\ cache = EmptyMap
    /\ pc = "idle"
    /\ outcome = "running"
    /\ flushes = "none"
    /\ gets = << >>
    /\ manifest = ZeroManifest
    /\ raceInfo = EmptyMap
    /\ classInfo = EmptyMap
    /\ genderInfo = EmptyMap
    /\ activityInfo = EmptyMap
    /\ filteredActivities = EmptyMap
    /\ data = EmptyMap
    /\ pending = {}
    /\ sets = {}

ApplyFlattenMaps ==
    /\ call.fn = "flattenMaps" /\ ~result.done
    /\ result' = [done |-> TRUE, value |-> flattenMaps(call.responses)]
    /\ UNCHANGED <<call, pipelineVars>>

\* the activity body decoded by fetchManifestEntities, then filtered
ApplyFilterActivities ==
    /\ call.fn = "filterActivities" /\ ~result.done
    /\ result' = [done |-> TRUE,
                  value |-> filterActivities(call.r,
                                             DecodeResponse(call.r, call.body))]
    /\ UNCHANGED <<call, pipelineVars>>

PureNext == ApplyFlattenMaps \/ ApplyFilterActivities

PureSpec == PureInit /\ [][PureNext]_vars

-----------------------------------------------------------------------------
(* Properties *)

FailedSets == {s \in sets : ~s.ok}

FetchStages ==
    <<"fetchManifest", "fetchRace", "fetchClass", "fetchGender", "fetchActivity">>

\* the manifest paths in the order main fetches them
PathsInOrder ==
    <<manifest.DestinyRaceDefinition, manifest.DestinyClassDefinition,
      manifest.DestinyGenderDefinition, manifest.DestinyActivityDefinition>>

\* the mode a revision's filter is written for
Target(r) == IF r = 2 THEN TargetRev2 ELSE TargetRev3

\* scheme and host of a URL: what precedes its third "/"
Origin(u) ==
    LET slashes == {i \in 1..Len(u) : u[i] = "/"}
        third == {i \in slashes : Cardinality({j \in slashes : j < i}) = 2}
    IN  IF third = {} THEN u ELSE SubSeq(u, 1, (CHOOSE i \in third : TRUE) - 1)

\* "//" somewhere after scheme and host
DoubledSlash(u) ==
    \E i \in (Len(Origin(u)) + 1)..(Len(u) - 1) : u[i] = "/" /\ u[i + 1] = "/"

\* C1: a failed flush ends the run with the store as it was, no GET and no
\* SET issued; a GET or a SET is only ever issued after a flush that succeeded.
C1_FlushFailureAborts ==
    /\ flushes = "err" =>
          /\ outcome = "flushError"
          /\ sets = {}
          /\ gets = << >>
          /\ cache = prior
    /\ sets # {} => flushes = "ok"
    /\ gets # << >> => flushes = "ok"

C1_Witness == flushes = "err" /\ outcome = "flushError" /\ prior # EmptyMap

\* C2: the result of flattenMaps has the union of its arguments' keys, each
\* with the value of the last argument holding it; merge(A, B) keeps A's
\* value where B has none and B's value elsewhere; merge(A) is A.
C2_FlattenLastWins ==
    (call.fn = "flattenMaps" /\ result.done) =>
        LET rs == call.responses
            out == result.value
            holders(k) == {i \in 1..Len(rs) : k \in DOMAIN rs[i]}
            last(k) == CHOOSE i \in holders(k) : \A j \in holders(k) : j <= i
        IN  /\ DOMAIN out = UNION {DOMAIN rs[i] : i \in 1..Len(rs)}
            /\ \A k \in DOMAIN out : out[k] = rs[last(k)][k]
            /\ Len(rs) = 2 =>
                  /\ \A k \in DOMAIN rs[1] \ DOMAIN rs[2] : out[k] = rs[1][k]
                  /\ \A k \in DOMAIN rs[2] : out[k] = rs[2][k]
            /\ Len(rs) = 1 => out = rs[1]

C2_Witness ==
    /\ call.fn = "flattenMaps" /\ result.done
    /\ Len(call.responses) = 2
    /\ \E k \in DOMAIN call.responses[1] \cap DOMAIN call.responses[2] :
          call.responses[1][k] # call.responses[2][k]
    /\ DOMAIN call.responses[1] \ DOMAIN call.responses[2] # {}

\* C3: filterActivities returns entries of its argument unchanged, and a
\* key is returned exactly when the payload gives its mode as a number equal
\* to the target; an entry whose mode is null or absent is never returned.
C3_FilterExact ==
    (call.fn = "filterActivities" /\ result.done) =>
        LET body == call.body
            D == DecodeResponse(call.r, body)
            out == result.value
        IN  /\ DOMAIN out \subseteq DOMAIN D
            /\ \A k \in DOMAIN out : out[k] = D[k]
            /\ \A k \in DOMAIN D :
                  k \in DOMAIN out <=>
                      (body[k].mode.kind = "int" /\ body[k].mode.v = Target(call.r))
            /\ \A k \in DOMAIN D :
                  body[k].mode.kind # "int" => k \notin DOMAIN out

C3_Witness ==
    /\ call.fn = "filterActivities" /\ result.done
    /\ DOMAIN result.value # {}
    /\ \E k \in DOMAIN call.body :
          call.body[k].mode.kind # "int" /\ k \notin DOMAIN result.value

\* C4: while the store accepts every write, saveToRedis does not fail, every
\* SET it issues is for a key of the merged dictionary with no expiration and
\* that entry's value, and it returns only after a SET for every key.
C4_SaveWritesEveryKey ==
    (pc \in {"save", "done"} /\ FailedSets = {}) =>
        /\ outcome \in {"running", "success"}
        /\ \A s \in sets :
              /\ s.key \in DOMAIN data
              /\ s.ttl = 0
              /\ s.value = SetValue(rev, data[s.key])
        /\ outcome = "success" => {s.key : s \in sets} = DOMAIN data

\* C5: a run in which the SET of some key failed ends with an error, never
\* with success.
C5_FailedWriteSurfaces ==
    FailedSets # {} => outcome # "success"

\* C6: a GET that failed is the last thing the run did: no later GET, no
\* filter, no merge and no SET, and the process has exited with a failure.
C6_FetchFailureStopsRun ==
    \A i \in 1..Len(gets) :
        gets[i].res # "ok" =>
            /\ i = Len(gets)
            /\ outcome = "fatal"
            /\ pc = FetchStages[i]
            /\ filteredActivities = EmptyMap
            /\ data = EmptyMap
            /\ pending = {}
            /\ sets = {}

C6_Witness ==
    /\ Len(gets) = 3
    /\ gets[3].res = "decode"
    /\ outcome = "fatal"
    /\ raceInfo # EmptyMap

C8_MergeUsesFilteredActivities ==
    pc \in {"save", "done"} =>
        /\ data = flattenMaps(<<raceInfo, classInfo, genderInfo,
                                filterActivities(rev, activityInfo)>>)
        /\ \A k \in DOMAIN activityInfo :
              (/\ ~Keeps(rev, activityInfo[k])
               /\ k \notin DOMAIN raceInfo \cup DOMAIN classInfo \cup DOMAIN genderInfo)
              => k \notin DOMAIN data

\* C9: every entity URL is scheme and host followed by the manifest's path,
\* with no doubled slash after the host.
C9_EntityUrlIsHostPlusPath ==
    \A i \in 2..Len(gets) :
        /\ gets[i].url = Origin(baseUrl(rev)) \o PathsInOrder[i - 1]
        /\ ~DoubledSlash(gets[i].url)

\* C10: a run that flushed and then failed in a fetch ends with an empty
\* store.
C10_FailedFetchLeavesEmptyCache ==
    (flushes = "ok" /\ outcome = "fatal") => cache = EmptyMap

C10_Witness ==
    /\ flushes = "ok" /\ outcome = "fatal"
    /\ prior # EmptyMap
    /\ pc = "fetchActivity"

=============================================================================
